---- MODULE Spec2Model ----
(***************************************************************************)
(* Model of the knowledge-graph-embedding pipeline of R2N:                 *)
(*   - Atom Assembly (KGEModel.create_triplets, AtomEmbeddingLayer.call),  *)
(*   - the scoring pass (KGEModel.call, KGEFactory and the KGE layers),    *)
(*   - the outer orchestration (CollectiveModel.__init__/explain_mode/     *)
(*     call).                                                              *)
(*                                                                         *)
(* Tensors are finite sequences: a vector is a sequence of integers, a     *)
(* batch is a sequence of rows.  Truth scores are fixed-point numbers in   *)
(* units of 1/Scale (Scale = 100, so 30 stands for 0.30).  Python's None   *)
(* is the empty option <<>>, a present value v is <<v>>.                   *)
(***************************************************************************)
EXTENDS Integers, Sequences, FiniteSets, TLC

VARIABLES
    (* ---- CollectiveModel: object fields ---- *)
    kge,                     \* the scoring-function name given at construction
    kge_embedder,            \* KGEModel.kge_embedder: the scoring layer's class
    output_layer,            \* KGEModel.output_layer: the output function's class
    adaptive_constant_embedder, \* KGEModel.adaptive_constant_embedder: None or <<count>>
    model_name,              \* CollectiveModel.model_name
    reasoner_depth,          \* CollectiveModel.reasoner_depth
    enabled_reasoner_depth,  \* CollectiveModel.enabled_reasoner_depth
    resnet,                  \* CollectiveModel.resnet
    embedding_resnet,        \* CollectiveModel.embedding_resnet
    reasoning,               \* CollectiveModel.reasoning: None or <<list of layers>>
    _explain_mode,           \* CollectiveModel._explain_mode
    (* ---- one CollectiveModel.call ---- *)
    pc,                      \* "idle" | "returned" | "raised" | "assembled"
    inputs,                  \* the (X_domains, A_predicates, A_rules, Q) of the call
    result,                  \* what the call returned or raised
    log,                     \* collaborators invoked by the call, in order
    (* ---- Atom Assembly ---- *)
    A_predicates,            \* the grounding batch handed to Atom Assembly
    triplets,                \* outcome of KGEModel.create_triplets
    atoms                    \* outcome of AtomEmbeddingLayer.call

model_vars == <<kge, kge_embedder, output_layer,
                adaptive_constant_embedder, model_name, reasoner_depth,
                enabled_reasoner_depth, resnet, embedding_resnet, reasoning,
                _explain_mode>>
call_vars == <<pc, inputs, result, log>>
atom_vars == <<A_predicates, triplets, atoms>>
vars == <<model_vars, call_vars, atom_vars>>

None == <<>>
Some(v) == <<v>>

\* Let(e, LAMBDA x : body) is body with x bound to e (a local of the code).
Let(v, F(_)) == F(v)

(***************************************************************************)
(* Bounds of the model.                                                    *)
(***************************************************************************)
\* Largest number of grounding tuples of one predicate in a batch.
MaxTuples == 2
\* Largest reasoner_depth a model is built with.
MaxDepth == 2
\* Largest number of query indices of one call.
MaxQ == 2

(***************************************************************************)
(* The signature (FOL): read-only metadata.  Predicates are listed in the  *)
(* signature's order; fol.name2predicate_idx is the 0-based position.      *)
(***************************************************************************)
Predicates == <<"p", "q", "r">>

PredicateDomains(name) ==
    CASE name = "p" -> <<"A", "B">>
      [] name = "q" -> <<"B", "A">>
      [] name = "r" -> <<"A">>

Domains == <<"A", "B">>

\* len(fol.name2domain[name].constants)
NumConstants(domain) == IF domain = "A" THEN 2 ELSE 1

name2predicate_idx(name) ==
    (CHOOSE k \in 1..Len(Predicates) : Predicates[k] = name) - 1

\* constant_embedding_size = predicate_embedding_size = kge_atom_embedding_size
EmbSize == 2

(***************************************************************************)
(* Vector and batch helpers.                                               *)
(***************************************************************************)
RECURSIVE Sum(_)
Sum(v) == IF v = <<>> THEN 0 ELSE Head(v) + Sum(Tail(v))

VecMul(a, b) == [k \in 1..Len(a) |-> a[k] * b[k]]
VecAdd(a, b) == [k \in 1..Len(a) |-> a[k] + b[k]]
VecSub(a, b) == [k \in 1..Len(a) |-> a[k] - b[k]]
VecScale(n, a) == [k \in 1..Len(a) |-> n * a[k]]

\* tf.repeat(x, n, axis=0) of a single row.
Repeat(row, n) == [k \in 1..n |-> row]

\* tf.concat(list, axis=0) of a list of batches, list non-empty.
RECURSIVE Concat(_)
Concat(list) == IF list = <<>> THEN <<>> ELSE Head(list) \o Concat(Tail(list))

\* tf.gather(params, indices) with every index in range; indices are 0-based.
Gather(params, indices) == [k \in 1..Len(indices) |-> params[indices[k] + 1]]

(***************************************************************************)
(* The learned lookup tables of the embedder collaborators.  The core only *)
(* reads them.                                                             *)
(***************************************************************************)
\* PredicateEmbeddings: one vector per predicate, by the predicate's index.
PredicateTable == << <<1, 2>>, <<2, 1>>, <<-1, 1>> >>

\* ConstantEmbeddings: per domain, one vector per known constant.
ConstantTable(domain) ==
    IF domain = "A" THEN << <<1, 0>>, <<0, 1>> >> ELSE << <<1, 1>> >>

\* self.predicate_embedder(self.predicate_index_tensor)
PredicateEmbedder(index_tensor) == Gather(PredicateTable, index_tensor)

predicate_index_tensor == [k \in 1..Len(Predicates) |-> k - 1]

\* self.constant_embedder(X_domains): the table rows of the given indices.
ConstantEmbedder(X_domains) ==
    [d \in DOMAIN X_domains |-> Gather(ConstantTable(d), X_domains[d])]

(***************************************************************************)
(* A grounding batch is an insertion-ordered mapping (a Python dict): a    *)
(* sequence of entries [name, tuples] with pairwise distinct names.        *)
(***************************************************************************)
Keys(A) == {A[k].name : k \in 1..Len(A)}

Entry(name, tuples) == [name |-> name, tuples |-> tuples]

\* A_predicates[name], for a name among the keys.
Lookup(A, name) == A[CHOOSE k \in 1..Len(A) : A[k].name = name].tuples

(***************************************************************************)
(* KGEModel.create_triplets                                                *)
(***************************************************************************)
\* Mutation: the predicate's embedding is not repeated per tuple.
PredicateRowsOf_NotRepeated(predicate_embeddings, entry) ==
    <<predicate_embeddings[name2predicate_idx(entry.name) + 1]>>

\* First loop: the predicate's embedding, once per grounding tuple.
PredicateRowsOf(predicate_embeddings, entry) ==
    Repeat(predicate_embeddings[name2predicate_idx(entry.name) + 1],
           Len(entry.tuples))

\* Second loop: per tuple, the constants' embeddings stacked along axis -2.
ConstantRowsOf(constant_embeddings, entry) ==
    LET domains == PredicateDomains(entry.name)
    IN  [t \in 1..Len(entry.tuples) |->
            [i \in 1..Len(domains) |->
                constant_embeddings[domains[i]][entry.tuples[t][i] + 1]]]

\* tf.concat of the per-predicate (N, arity, E) batches needs one arity.
SameArity(A) ==
    \A j, k \in 1..Len(A) :
        Len(PredicateDomains(A[j].name)) = Len(PredicateDomains(A[k].name))

Raised(kind, line) ==
    [status |-> kind, line |-> line, arity |-> 0,
     predicate_embeddings_per_triplets |-> <<>>,
     constant_embeddings_for_triplets |-> <<>>]

create_triplets(constant_embeddings, predicate_embeddings, A) ==
    IF A = <<>>
    THEN Raised("ConcatError", 72)          \* tf.concat of an empty list
    ELSE IF ~SameArity(A)
    THEN Raised("ConcatError", 88)          \* ranks agree, arities do not
    ELSE
    Let(Concat([k \in 1..Len(A) |->
                   PredicateRowsOf(predicate_embeddings, A[k])]),
        LAMBDA pe :
    Let(Concat([k \in 1..Len(A) |->
                   ConstantRowsOf(constant_embeddings, A[k])]),
        LAMBDA ce :
    IF Len(pe) # Len(ce)
    THEN Raised("AssertEqualError", 90)
    ELSE [status |-> "ok", line |-> 93,
          \* shape[1] of the constant batch, kept for empty batches
          arity |-> Len(PredicateDomains(A[1].name)),
          predicate_embeddings_per_triplets |-> pe,
          constant_embeddings_for_triplets |-> ce]))

(***************************************************************************)
(* AtomEmbeddingLayer                                                      *)
(***************************************************************************)
\* self.embedders[name]: an instance of the embedder_class handed to the
\* constructor, one per predicate; it maps a (B, arity, E) batch to (B, E).
\* A fixed embedder that tells atoms apart stands for it.
AtomEmbedder(name, features) ==
    [t \in 1..Len(features) |->
        LET RECURSIVE Acc(_)
            Acc(i) == IF i = 0
                      THEN VecScale(10, PredicateTable[name2predicate_idx(name) + 1])
                      ELSE VecAdd(Acc(i - 1), features[t][i])
        IN  Acc(Len(features[t]))]

\* AtomEmbeddingLayer.create_tuples
create_tuples(constants_embeddings, tuples_tensor, predicate_domains) ==
    [t \in 1..Len(tuples_tensor) |->
        [i \in 1..Len(predicate_domains) |->
            constants_embeddings[predicate_domains[i]][tuples_tensor[t][i] + 1]]]

\* First loop of call: features of the predicates present in the batch,
\* in the order of self.predicates.
tuple_features(constants_embeddings, A) ==
    [name \in Keys(A) |->
        IF Lookup(A, name) = <<>>
        THEN <<>>                                       \* GetZeros
        ELSE create_tuples(constants_embeddings, Lookup(A, name),
                           PredicateDomains(name))]     \* GetTuples

AtomEmbeddingLayerCall(constants_embeddings, A) ==
    Let(tuple_features(constants_embeddings, A),
        LAMBDA features :
    \* Second loop: every predicate of self.predicates is looked up.
    IF \E k \in 1..Len(Predicates) : Predicates[k] \notin Keys(A)
    THEN [status |-> "KeyError", line |-> 82, embeddings |-> <<>>]
    ELSE [status |-> "ok", line |-> 94,
          embeddings |-> Concat([k \in 1..Len(Predicates) |->
              AtomEmbedder(Predicates[k], features[Predicates[k]])])])

(***************************************************************************)
(* Fixed-point scores.                                                     *)
(***************************************************************************)
\* One unit of score is 1/Scale.
Scale == 100

\* tf.nn.sigmoid, rounded to the nearest tenth: sigmoid(1) = 0.73 -> 70/100.
Sigmoid(x) ==
    CASE x <= -3 -> 0
      [] x = -2 -> 10
      [] x = -1 -> 30
      [] x = 0 -> 50
      [] x = 1 -> 70
      [] x = 2 -> 90
      [] OTHER -> 100

\* tf.expand_dims(x, -1) and tf.squeeze(x, -1) on a (T,) / (T, 1) batch.
ExpandDims(v) == [k \in 1..Len(v) |-> <<v[k]>>]
Squeeze(m) == [k \in 1..Len(m) |-> m[k][1]]

(***************************************************************************)
(* The KGE layers and KGEFactory.                                          *)
(***************************************************************************)
\* str.casefold on the spellings the model uses.
CaseFold(name) ==
    CASE name = "DistMult" -> "distmult"
      [] name = "TransE" -> "transe"
      [] name = "ComplEx" -> "complex"
      [] name = "RotatE" -> "rotate"
      [] name = "ModE" -> "mode"
      [] name = "Tucker" -> "tucker"
      [] OTHER -> name

\* DistMult, TransE, ModE, ComplEx, RotatE:
\*   __init__(atom_embedding_size, regularization, regularization_n3, dropout_rate)
KGELayer(cls, atom_embedding_size, regularization, regularization_n3, dropout_rate) ==
    [cls |-> cls, atom_embedding_size |-> atom_embedding_size,
     regularization |-> regularization,
     regularization_n3 |-> regularization_n3,
     dropout_rate |-> dropout_rate]

\* Tucker.__init__(atom_embedding_size, relation_embedding_size,
\*                 regularization, dropout_rate): it has no N3 coefficient.
TuckerLayer(atom_embedding_size, relation_embedding_size, regularization, dropout_rate) ==
    [cls |-> "Tucker", atom_embedding_size |-> atom_embedding_size,
     regularization |-> regularization, regularization_n3 |-> 0,
     dropout_rate |-> dropout_rate]

\* Mutation: a name the factory does not know selects DistMult.
KGEFactoryUnknown_DistMult(name) ==
    Some(<<KGELayer("DistMult", EmbSize, 0, 0, 0), "DistMult">>)

\* Lines 467-469: print('Unknown KGE', name) and return None.
KGEFactoryUnknown(name) == None

\* The factory passes (atom_embedding_size, regularization, dropout_rate)
\* positionally; it returns None for a name it does not know.
KGEFactory(name, atom_embedding_size, regularization, dropout_rate, relation_embedding_size) ==
    CASE CaseFold(name) = "complex" ->
            Some(<<KGELayer("ComplEx", atom_embedding_size, regularization,
                            dropout_rate, 0), "ComplEx">>)
      [] CaseFold(name) = "distmult" ->
            Some(<<KGELayer("DistMult", atom_embedding_size, regularization,
                            dropout_rate, 0), "DistMult">>)
      [] CaseFold(name) = "tucker" ->
            Some(<<TuckerLayer(atom_embedding_size, relation_embedding_size,
                               regularization, dropout_rate), "Tucker">>)
      [] CaseFold(name) = "transe" ->
            Some(<<KGELayer("TransE", atom_embedding_size, regularization,
                            dropout_rate, 0), "TransE">>)
      [] CaseFold(name) = "rotate" ->
            Some(<<KGELayer("RotatE", atom_embedding_size, regularization,
                            dropout_rate, 0), "RotatE">>)
      [] CaseFold(name) = "mode" ->
            Some(<<KGELayer("ModE", atom_embedding_size, regularization,
                            dropout_rate, 0), "ModE">>)
      [] OTHER -> KGEFactoryUnknown(name)

\* tf.reduce_prod(c_embeddings, axis=1) of one row: the product over the
\* arity axis.
RECURSIVE ReduceProd(_)
ReduceProd(row) ==
    IF Len(row) = 1 THEN row[1] ELSE VecMul(row[1], ReduceProd(Tail(row)))

\* DistMult.call
DistMultCall(p_embeddings, c_embeddings) ==
    [k \in 1..Len(p_embeddings) |->
        VecMul(p_embeddings[k], ReduceProd(c_embeddings[k]))]

\* TransE.call, on a batch of arity >= 2
TransECall(p_embeddings, c_embeddings) ==
    [k \in 1..Len(p_embeddings) |->
        LET head == c_embeddings[k][1]
            tail == c_embeddings[k][2]
        IN  VecSub(VecAdd(p_embeddings[k], head), tail)]

\* ModE.call, on a batch of arity >= 2
ModECall(p_embeddings, c_embeddings) ==
    [k \in 1..Len(p_embeddings) |->
        LET head == c_embeddings[k][1]
            tail == c_embeddings[k][2]
        IN  VecSub(VecMul(p_embeddings[k], head), tail)]

\* tf.split(x, 2, axis=-1) of one row
SplitLo(row) == SubSeq(row, 1, Len(row) \div 2)
SplitHi(row) == SubSeq(row, Len(row) \div 2 + 1, Len(row))

\* Component j of a row under broadcasting: a row of width 1 is stretched.
At(row, j) == row[IF Len(row) = 1 THEN 1 ELSE j]

\* ComplEx.call, on a batch of arity >= 2 and rows of even width
ComplExCall(p_embeddings, c_embeddings) ==
    [k \in 1..Len(p_embeddings) |->
        LET Rr == SplitLo(p_embeddings[k])
            Ri == SplitHi(p_embeddings[k])
            h_r == SplitLo(c_embeddings[k][1])
            h_i == SplitHi(c_embeddings[k][1])
            t_r == SplitLo(c_embeddings[k][2])
            t_i == SplitHi(c_embeddings[k][2])
        IN  [j \in 1..Len(Rr) |->
                h_r[j] * t_r[j] * Rr[j] + h_i[j] * t_i[j] * Rr[j]
                + h_r[j] * t_i[j] * Ri[j] - h_i[j] * t_r[j] * Ri[j]]]

\* tf.math.cos and tf.math.sin of the phase x * norm_factor, in tenths, for
\* the layer's norm_factor = pi / (6.5 / 2) and the integers of the
\* predicate table.
Cos10(x) ==
    CASE x = -2 -> -4 [] x = -1 -> 6 [] x = 0 -> 10 [] x = 1 -> 6
      [] x = 2 -> -4

Sin10(x) ==
    CASE x = -2 -> -9 [] x = -1 -> -8 [] x = 0 -> 0 [] x = 1 -> 8
      [] x = 2 -> 9

\* tf.math.sqrt, rounded down: the largest r in lo..hi with r * r <= n.
RECURSIVE ISqrtIn(_, _, _)
ISqrtIn(n, lo, hi) ==
    IF lo = hi THEN lo
    ELSE IF ((lo + hi + 1) \div 2) * ((lo + hi + 1) \div 2) <= n
    THEN ISqrtIn(n, (lo + hi + 1) \div 2, hi)
    ELSE ISqrtIn(n, lo, (lo + hi + 1) \div 2 - 1)

ISqrt(n) == ISqrtIn(n, 0, n)

\* RotatE.call past the empty-batch return of lines 360-361: the modulus of
\* relation * tail - head per component, in tenths and then rounded.
RotatECall(p_embeddings, c_embeddings) ==
    [k \in 1..Len(p_embeddings) |->
        LET re_head == SplitLo(c_embeddings[k][1])
            im_head == SplitHi(c_embeddings[k][1])
            re_tail == SplitLo(c_embeddings[k][2])
            im_tail == SplitHi(c_embeddings[k][2])
            re_score(j) == Cos10(p_embeddings[k][j]) * At(re_tail, j)
                           + Sin10(p_embeddings[k][j]) * At(im_tail, j)
                           - 10 * At(re_head, j)
            im_score(j) == Cos10(p_embeddings[k][j]) * At(im_tail, j)
                           - Sin10(p_embeddings[k][j]) * At(re_tail, j)
                           - 10 * At(im_head, j)
        IN  [j \in 1..Len(p_embeddings[k]) |->
                (ISqrt(re_score(j) * re_score(j) + im_score(j) * im_score(j))
                    + 5) \div 10]]

\* The scoring layer applied to (p_embeddings, c_embeddings); arity is
\* shape[1] of c_embeddings.  Dropout is the identity at rate 0.
KGELayerCall(layer, p_embeddings, c_embeddings, arity) ==
    CASE layer.cls = "DistMult" ->
            [status |-> "ok", line |-> 138,
             embeddings |-> DistMultCall(p_embeddings, c_embeddings)]
      [] layer.cls = "TransE" ->
            IF arity < 2
            THEN [status |-> "IndexError", line |-> 184, embeddings |-> <<>>]
            ELSE [status |-> "ok", line |-> 194,
                  embeddings |-> TransECall(p_embeddings, c_embeddings)]
      [] layer.cls = "ModE" ->
            IF arity < 2
            THEN [status |-> "IndexError", line |-> 230, embeddings |-> <<>>]
            ELSE [status |-> "ok", line |-> 240,
                  embeddings |-> ModECall(p_embeddings, c_embeddings)]
      [] layer.cls = "ComplEx" ->
            IF arity < 2
            THEN [status |-> "IndexError", line |-> 277, embeddings |-> <<>>]
            ELSE [status |-> "ok", line |-> 297,
                  embeddings |-> ComplExCall(p_embeddings, c_embeddings)]
      [] layer.cls = "RotatE" ->
            IF arity < 2
            THEN [status |-> "IndexError", line |-> 358, embeddings |-> <<>>]
            ELSE IF Len(c_embeddings) = 0
            THEN [status |-> "ok", line |-> 361, embeddings |-> <<>>]
            ELSE [status |-> "ok", line |-> 385,
                  embeddings |-> RotatECall(p_embeddings, c_embeddings)]
      [] layer.cls = "Tucker" ->
            \* 'i,i->b' names an output axis no operand has, and gives the
            \* (B, E) operands one axis: tf.einsum rejects the equation.
            IF arity < 2
            THEN [status |-> "IndexError", line |-> 419, embeddings |-> <<>>]
            ELSE [status |-> "EinsumError", line |-> 423, embeddings |-> <<>>]

\* tf.exp(-x) for x >= 0, rounded to the nearest tenth, in units of 1/Scale.
ExpNeg(x) == CASE x = 0 -> 100 [] x = 1 -> 40 [] x = 2 -> 10 [] OTHER -> 0

\* RotatE.margin
margin == 6

\* The output function returned by <cls>.output_layer(), applied to a batch.
OutputLayerCall(cls, embeddings) ==
    CASE cls \in {"DistMult", "ComplEx"} ->
            [status |-> "ok",
             outputs |-> [k \in 1..Len(embeddings) |-> Sigmoid(Sum(embeddings[k]))]]
      [] cls = "TransE" ->
            \* -tf.reduce_mean(tf.square(x), axis=-1)
            [status |-> "ok",
             outputs |-> [k \in 1..Len(embeddings) |->
                 -((Scale * Sum(VecMul(embeddings[k], embeddings[k])))
                     \div Len(embeddings[k]))]]
      [] cls = "ModE" ->
            \* tf.exp(-tf.norm(x, axis=-1))
            [status |-> "ok",
             outputs |-> [k \in 1..Len(embeddings) |->
                 ExpNeg(ISqrt(Sum(VecMul(embeddings[k], embeddings[k]))))]]
      [] cls = "RotatE" ->
            \* tf.sigmoid(cls.margin - tf.reduce_sum(x, axis=-1))
            [status |-> "ok",
             outputs |-> [k \in 1..Len(embeddings) |->
                 Sigmoid(margin - Sum(embeddings[k]))]]
      [] cls = "Tucker" ->
            \* 'outputs' is read before it is assigned
            [status |-> "UnboundLocalError", outputs |-> <<>>]

(***************************************************************************)
(* KGEModel.call                                                           *)
(***************************************************************************)
\* One invocation of a collaborator, as the call makes it.
Event(op, i, layer, args, out) ==
    [op |-> op, i |-> i, layer |-> layer, args |-> args, out |-> out]

\* Lines 42-50: the adaptive embedder exists iff num_adaptive_constants > 0.
AdaptiveConstantEmbedderInit(num_adaptive_constants) ==
    IF num_adaptive_constants > 0 THEN Some(num_adaptive_constants) ELSE None

\* AdaptiveConstantEmbeddings: one vector per position, from the raw index.
AdaptiveConstantEmbedder(X_domains) ==
    [d \in DOMAIN X_domains |->
        [k \in 1..Len(X_domains[d]) |-> <<X_domains[d][k] + 3, -1>>]]

\* Lines 100-102: x < len(self.fol.name2domain[name].constants)
X_domains_fixed_mask(X_domains) ==
    [d \in DOMAIN X_domains |->
        [k \in 1..Len(X_domains[d]) |-> X_domains[d][k] < NumConstants(d)]]

\* Mutation: the fixed embedder is asked with the raw indices.
X_domains_fixed_Raw(X_domains) == X_domains

\* Lines 103-105: tf.where(mask, x, 0)
X_domains_fixed(X_domains) ==
    [d \in DOMAIN X_domains |->
        [k \in 1..Len(X_domains[d]) |->
            IF X_domains_fixed_mask(X_domains)[d][k]
            THEN X_domains[d][k] ELSE 0]]

\* self.constant_embedder(X): an index outside the table has no row; the
\* lookup then yields what tf.gather yields on a GPU, a row of zeros.
ConstantLookup(X_domains) ==
    [d \in DOMAIN X_domains |->
        [k \in 1..Len(X_domains[d]) |->
            IF 0 <= X_domains[d][k] /\ X_domains[d][k] < NumConstants(d)
            THEN ConstantTable(d)[X_domains[d][k] + 1]
            ELSE [j \in 1..EmbSize |-> 0]]]

\* Mutation: the selection takes the adaptive row at every position.
SelectConstant_Adaptive(mask, fixed, adaptive) == adaptive

\* Lines 110-114: tf.where(expand_dims(mask, -1), fixed, adaptive) of one
\* position: the whole row comes from one side.
SelectConstant(mask, fixed, adaptive) == IF mask THEN fixed ELSE adaptive

\* Lines 99-123: the constant embeddings the call works with.
constant_embeddings(X_domains) ==
    IF adaptive_constant_embedder # None
    THEN [d \in DOMAIN X_domains |->
            [k \in 1..Len(X_domains[d]) |->
                SelectConstant(X_domains_fixed_mask(X_domains)[d][k],
                               ConstantLookup(X_domains_fixed(X_domains))[d][k],
                               AdaptiveConstantEmbedder(X_domains)[d][k])]]
    ELSE ConstantEmbedder(X_domains)

\* The embedders the call queries, in order, with what they are asked.
EmbedderQueries(X_domains) ==
    IF adaptive_constant_embedder # None
    THEN <<Event("constant_embedder", -1, None,
                 <<X_domains_fixed(X_domains)>>,
                 Some(ConstantLookup(X_domains_fixed(X_domains)))),
           Event("adaptive_constant_embedder", -1, None, <<X_domains>>,
                 Some(AdaptiveConstantEmbedder(X_domains)))>>
    ELSE <<Event("constant_embedder", -1, None, <<X_domains>>,
                 Some(ConstantEmbedder(X_domains)))>>

KGERaised(kind, line) ==
    [status |-> kind, line |-> line, atom_outputs |-> <<>>,
     atom_embeddings |-> <<>>]

KGEModelCall(embedder, out_cls, X_domains, A) ==
    Let(create_triplets(constant_embeddings(X_domains),
                        PredicateEmbedder(predicate_index_tensor), A),
        LAMBDA t :
    IF t.status # "ok" THEN KGERaised(t.status, t.line)
    ELSE
    Let(KGELayerCall(embedder, t.predicate_embeddings_per_triplets,
                     t.constant_embeddings_for_triplets, t.arity),
        LAMBDA e :
    IF e.status # "ok" THEN KGERaised(e.status, e.line)
    ELSE
    Let(OutputLayerCall(out_cls, e.embeddings),
        LAMBDA o :
    IF o.status # "ok" THEN KGERaised(o.status, 134)
    ELSE [status |-> "ok", line |-> 135,
          atom_outputs |-> ExpandDims(o.outputs),
          atom_embeddings |-> e.embeddings])))

(***************************************************************************)
(* Collaborators of CollectiveModel: the reasoning layers and the logic.   *)
(***************************************************************************)
\* GodelTNorm.disj_pair(a, b) = a + b - a*b, on fixed-point scores.
disj_pair(a, b) == [k \in 1..Len(a) |-> a[k] + b[k] - (a[k] * b[k]) \div Scale]

\* One reasoning step: (scores, embeddings) <- layer([scores, embeddings,
\* A_rules]).  The layers are opaque; a step that depends on the layer
\* instance, on its inputs and on the rule groundings stands for them.
ReasoningLayerCall(layer, scores, embeddings, A_rules) ==
    <<[k \in 1..Len(scores) |->
          <<(scores[k][1] + 30 * layer.id + 10 * A_rules) % (Scale + 10)>>],
      [k \in 1..Len(embeddings) |->
          [j \in 1..Len(embeddings[k]) |-> embeddings[k][j] + layer.id]]>>

\* layer.explain([scores, embeddings, A_rules]): an opaque artifact that
\* records what it was computed from.
ReasoningLayerExplain(layer, scores, embeddings, A_rules) ==
    [layer |-> layer, scores |-> scores, embeddings |-> embeddings,
     A_rules |-> A_rules]

\* The reasoning variants that have an explain operation.
Explainable == {"dcr", "cdcr"}

(***************************************************************************)
(* CollectiveModel.__init__                                                *)
(***************************************************************************)
\* KGEModel.__init__: unpacking the factory's None raises before the assert.
KGEModelInit(name, regularization, dropout_rate) ==
    LET f == KGEFactory(name, EmbSize, regularization, dropout_rate, EmbSize)
    IN  IF f = None
        THEN [status |-> "TypeError", line |-> 52,
              kge_embedder |-> None, output_layer |-> None]
        ELSE [status |-> "ok", line |-> 58,
              kge_embedder |-> Some(f[1][1]), output_layer |-> Some(f[1][2])]

LayerClass(name) ==
    CASE name = "dcr" -> "DCRReasoningLayer"
      [] name = "cdcr" -> "ClusteredDCRReasoningLayer"
      [] name = "r2n" -> "R2NReasoningLayer"
      [] name = "sbr" -> "SBRReasoningLayer"
      [] name = "gsbr" -> "GatedSBRReasoningLayer"
      [] name = "rnm" -> "RNMReasoningLayer"
      [] name = "dsl" -> "DeepStocklogLayer"
      [] OTHER -> "Unknown"

\* The layer built at position i (0-based); id i + 1 names the instance.
\* Only R2N is handed an output layer.
NewLayer(c, i, kge_output_layer) ==
    [cls |-> LayerClass(c.model_name), id |-> i + 1,
     output_layer |->
        IF c.model_name = "r2n"
        THEN (IF c.kge = "rotate" THEN "SumAndSigmoidOutput"
                                  ELSE kge_output_layer)
        ELSE "-"]

\* Mutation: every position gets an instance of its own.
ReasoningList_Fresh(c, kge_output_layer) ==
    [k \in 1..c.reasoner_depth |-> NewLayer(c, k - 1, kge_output_layer)]

\* The loop of lines 205-273: position i > 0 aliases position 0 when
\* reasoner_single_model is set.
ReasoningList(c, kge_output_layer) ==
    [k \in 1..c.reasoner_depth |->
        IF k - 1 > 0 /\ c.reasoner_single_model
        THEN NewLayer(c, 0, kge_output_layer)
        ELSE NewLayer(c, k - 1, kge_output_layer)]

CollectiveModelInit(c) ==
    LET km == KGEModelInit(c.kge, c.kge_regularization, c.kge_dropout_rate)
        failed(kind, line) ==
            [status |-> kind, line |-> line, kge_embedder |-> None,
             output_layer |-> None, reasoning |-> None]
    IN  IF km.status # "ok" THEN failed(km.status, km.line)
        ELSE IF c.reasoner_depth > 0 /\ c.num_rules > 0
        THEN IF LayerClass(c.model_name) = "Unknown"
             THEN failed("AssertionError", 273)
             ELSE [status |-> "ok", line |-> 275,
                   kge_embedder |-> km.kge_embedder,
                   output_layer |-> km.output_layer,
                   reasoning |-> Some(ReasoningList(c, km.output_layer[1]))]
        ELSE [status |-> "ok", line |-> 275,
              kge_embedder |-> km.kge_embedder,
              output_layer |-> km.output_layer,
              reasoning |-> None]

(***************************************************************************)
(* CollectiveModel.call                                                    *)
(***************************************************************************)
\* Mutation: every iteration uses the first layer of the list.
StepLayer_First(i) == reasoning[1][1]

\* self.reasoning[i] of lines 300 and 302.
StepLayer(i) == reasoning[1][i + 1]

\* Mutation: the explanation is taken at the first step.
Explaining_FirstStep(i) == _explain_mode /\ i = 0

\* Line 299: the iteration that also asks for the explanation.
Explaining(i) == _explain_mode /\ i = enabled_reasoner_depth - 1

\* One iteration (lines 299-303) at index i on the loop state
\* st = [task_output, atom_embeddings, explanations, log].
LoopBody(i, st, A_rules) ==
    Let(StepLayer(i), LAMBDA layer :
    Let(Explaining(i), LAMBDA explaining :
    Let(<<st.task_output, st.atom_embeddings, A_rules>>, LAMBDA args :
    Let(ReasoningLayerExplain(layer, args[1], args[2], args[3]),
        LAMBDA explanation :
    Let(ReasoningLayerCall(layer, args[1], args[2], args[3]),
        LAMBDA out :
    [task_output |-> out[1],
     atom_embeddings |-> out[2],
     explanations |-> IF explaining THEN Some(explanation)
                      ELSE st.explanations,
     log |-> st.log
             \o (IF explaining
                 THEN <<Event("explain", i, Some(layer), args,
                              Some(explanation))>>
                 ELSE <<>>)
             \o <<Event("reasoning", i, Some(layer), args, Some(out))>>])))))

\* Lines 298-303: the iterations i, i+1, ... of the loop over
\* range(self.enabled_reasoner_depth).
RECURSIVE Unroll(_, _, _)
Unroll(i, st, A_rules) ==
    IF i >= enabled_reasoner_depth
    THEN [status |-> "ok", line |-> 304] @@ st
    ELSE IF i >= Len(reasoning[1])
    THEN [status |-> "IndexError",
          line |-> IF Explaining(i) THEN 300 ELSE 302] @@ st
    ELSE Unroll(i + 1, LoopBody(i, st, A_rules), A_rules)

\* self.embedding_resnet_weight: Dense(1, activation='sigmoid') on the
\* concatenated (concept, reasoned) embeddings.  The learned kernel is +1 on
\* the concept half and -1 on the reasoned half, the bias is 3.
embedding_resnet_weight(concat) ==
    [k \in 1..Len(concat) |->
        Sigmoid(3 + Sum(SubSeq(concat[k], 1, Len(concat[k]) \div 2))
                  - Sum(SubSeq(concat[k], Len(concat[k]) \div 2 + 1,
                               Len(concat[k]))))]

\* tf.clip_by_value(w, 1e-9, 1.0 - 1e-7) in units of 1/Scale: both limits
\* round to the ends of the unit interval.
ClipByValue(w) ==
    [k \in 1..Len(w) |->
        IF w[k] < 0 THEN 0 ELSE IF w[k] > Scale THEN Scale ELSE w[k]]

\* Line 308: (1 - w) * stop_gradient(concept) + w * atom, per row.
Blend(w, concept_embeddings, atom_embeddings) ==
    [k \in 1..Len(w) |->
        [j \in 1..Len(atom_embeddings[k]) |->
            ((Scale - w[k]) * concept_embeddings[k][j]
                + w[k] * atom_embeddings[k][j]) \div Scale]]

\* tf.gather(params, Q) of line 311/313.  An index outside the batch makes
\* the op raise on a CPU and yield 0 on a GPU; oob_raises picks the device.
InRange(Q, n) == \A k \in 1..Len(Q) : 0 <= Q[k] /\ Q[k] < n

\* Mutation: the first |Q| rows, whatever the indices.
GatherQ_FirstRows(params, Q) ==
    [k \in 1..Len(Q) |-> IF k <= Len(params) THEN params[k] ELSE 0]

GatherQ(params, Q) ==
    [k \in 1..Len(Q) |->
        IF 0 <= Q[k] /\ Q[k] < Len(params) THEN params[Q[k] + 1] ELSE 0]

CallRaised(kind, line, lg) ==
    [status |-> kind, line |-> line, ret |-> <<>>, log |-> lg]

\* Mutation: the task resnet does not look at the reasoning stack.
TaskResnetApplies_NoStackCheck == resnet

\* Mutation: the task resnet is never applied.
TaskResnetApplies_Never == FALSE

\* Line 314: self.resnet and self.reasoning is not None.
TaskResnetApplies == resnet /\ reasoning # None

\* Lines 311-320, from the scores before the gather.
Finish(concept_output, task_output, explanations, Q, oob_raises, lg) ==
    Let(lg \o <<Event("gather", -1, None,
                      <<Squeeze(task_output), Squeeze(concept_output), Q>>,
                      None)>>, LAMBDA lg2 :
    IF ~InRange(Q, Len(task_output)) /\ oob_raises
    THEN CallRaised("InvalidArgumentError", 311, lg2)
    ELSE
    Let(GatherQ(Squeeze(task_output), Q), LAMBDA task_q :
    Let(GatherQ(Squeeze(concept_output), Q), LAMBDA concept_q :
    Let(IF TaskResnetApplies
        THEN disj_pair(task_q, concept_q) ELSE task_q, LAMBDA final :
    [status |-> "ok", line |-> IF _explain_mode THEN 318 ELSE 320,
     ret |-> IF _explain_mode
             THEN <<concept_q, final, explanations>>
             ELSE <<concept_q, final>>,
     log |-> lg2]))))

\* Lines 304-309, after the loop u = [task_output, atom_embeddings, ...].
EmbeddingResnet(concept_embeddings, u) ==
    IF ~embedding_resnet THEN u
    ELSE
    Let([k \in 1..Len(concept_embeddings) |->
            concept_embeddings[k] \o u.atom_embeddings[k]], LAMBDA concat :
    Let(ClipByValue(embedding_resnet_weight(concat)), LAMBDA w :
    Let(Blend(w, concept_embeddings, u.atom_embeddings), LAMBDA blended :
    Let(OutputLayerCall(output_layer[1], blended), LAMBDA o :
    [status |-> o.status, line |-> 309,
     task_output |-> ExpandDims(o.outputs),
     atom_embeddings |-> blended,
     explanations |-> u.explanations,
     log |-> u.log \o <<Event("embedding_resnet_weight", -1, None,
                              <<concat>>, Some(w))>>]))))

\* Lines 296-309: the reasoning stack applied to the KGE outcome k.
Reason(k, kge_event, A_rules) ==
    Let(Unroll(0, [task_output |-> k.atom_outputs,
                   atom_embeddings |-> k.atom_embeddings,
                   explanations |-> None,
                   log |-> <<kge_event>>], A_rules),
        LAMBDA u :
    IF u.status # "ok" THEN u ELSE EmbeddingResnet(k.atom_embeddings, u))

\* Mutation: explain mode only checks that a stack exists.
FailedAssertion_StackOnly ==
    IF _explain_mode /\ reasoning = None THEN <<283>> ELSE None

\* Lines 281-285: the line of the assertion that fails, if one does.
FailedAssertion ==
    IF _explain_mode /\ reasoning = None THEN <<283>>
    ELSE IF _explain_mode /\ model_name \notin Explainable THEN <<285>>
    ELSE None

\* Lines 280-320.
CollectiveModelCall(X_domains, A, A_rules, Q, oob_raises) ==
    IF FailedAssertion # None
    THEN CallRaised("AssertionError", FailedAssertion[1], <<>>)
    ELSE
    Let(KGEModelCall(kge_embedder[1], output_layer[1], X_domains, A),
        LAMBDA k :
    Let(Event("kge_model", -1, None, <<X_domains, A>>,
              IF k.status = "ok"
              THEN Some(<<k.atom_outputs, k.atom_embeddings>>)
              ELSE None),
        LAMBDA kge_event :
    IF k.status # "ok" THEN CallRaised(k.status, 292, <<kge_event>>)
    ELSE IF reasoning = None
    THEN Finish(k.atom_outputs, k.atom_outputs, None, Q, oob_raises,
                <<kge_event>>)
    ELSE
    Let(Reason(k, kge_event, A_rules), LAMBDA u :
    IF u.status # "ok" THEN CallRaised(u.status, u.line, u.log)
    ELSE Finish(k.atom_outputs, u.task_output, u.explanations, Q,
                oob_raises, u.log))))

(***************************************************************************)
(* Inputs.                                                                 *)
(***************************************************************************)
\* The index tuples a predicate can be grounded with.
TupleSpace(name) ==
    LET domains == PredicateDomains(name)
    IN  {t \in [1..Len(domains) -> 0..1] :
            \A i \in 1..Len(domains) : t[i] < NumConstants(domains[i])}

TupleSeqs(name) == UNION {[1..n -> TupleSpace(name)] : n \in 0..MaxTuples}

\* The insertion orders of a dict keyed by predicate names.
KeyOrders ==
    {ks \in UNION {[1..n -> {Predicates[k] : k \in 1..Len(Predicates)}] :
                      n \in 0..Len(Predicates)} :
        \A i, j \in 1..Len(ks) : i # j => ks[i] # ks[j]}

RECURSIVE BatchesOf(_)
BatchesOf(ks) ==
    IF ks = <<>> THEN {<<>>}
    ELSE {<<Entry(Head(ks), ts)>> \o rest :
             ts \in TupleSeqs(Head(ks)), rest \in BatchesOf(Tail(ks))}

\* X_domains of a call: every known constant of every domain, in order.
XDomains == [d \in {"A", "B"} |-> [k \in 1..NumConstants(d) |-> k - 1]]

\* The grounding batches CollectiveModel.call is driven with: no predicate,
\* one atom, three atoms of two predicates, and predicates of two arities.
Groundings ==
    { <<>>,
      <<Entry("r", << <<0>> >>)>>,
      <<Entry("p", << <<0, 0>>, <<1, 0>> >>), Entry("q", << <<0, 1>> >>)>>,
      <<Entry("p", << <<0, 0>> >>), Entry("r", << <<1>> >>)>> }

\* Opaque rule groundings.
RuleGroundings == {0, 1}

RECURSIVE RowCount(_)
RowCount(A) == IF A = <<>> THEN 0 ELSE Len(Head(A).tuples) + RowCount(Tail(A))

\* Query index sequences over a batch of n rows; n itself is out of range.
Queries(n) == UNION {[1..m -> 0..n] : m \in 0..MaxQ}

\* The configurations a CollectiveModel is built with.
Configs ==
    [kge : {"distmult", "tucker"},
     kge_regularization : {0},
     kge_dropout_rate : {0},
     model_name : {"dcr", "r2n", "mlp"},
     reasoner_depth : 0..MaxDepth,
     num_rules : {0, 1},
     reasoner_single_model : BOOLEAN,
     resnet : BOOLEAN,
     embedding_resnet : BOOLEAN,
     num_adaptive_constants : {0}]

(***************************************************************************)
(* The CollectiveModel state machine.                                      *)
(***************************************************************************)
NoResult == [status |-> "none", line |-> 0, ret |-> <<>>]
NoTriplets == Raised("none", 0)
NoAtoms == [status |-> "none", line |-> 0, embeddings |-> <<>>]

\* The fields as __init__ leaves them (lines 170-275).
Constructed(c) ==
    \E m \in {CollectiveModelInit(c)} :
        /\ m.status = "ok"
        /\ kge = c.kge
        /\ kge_embedder = m.kge_embedder
        /\ output_layer = m.output_layer
        /\ adaptive_constant_embedder
            = AdaptiveConstantEmbedderInit(c.num_adaptive_constants)
        /\ model_name = c.model_name
        /\ reasoner_depth = c.reasoner_depth
        /\ enabled_reasoner_depth = c.reasoner_depth
        /\ resnet = c.resnet
        /\ embedding_resnet = c.embedding_resnet
        /\ reasoning = m.reasoning
        /\ _explain_mode = FALSE

Init ==
    /\ \E c \in Configs : Constructed(c)
    /\ pc = "idle" /\ inputs = <<>> /\ result = NoResult /\ log = <<>>
    /\ A_predicates = <<>> /\ triplets = NoTriplets /\ atoms = NoAtoms

\* Mutation: switching the mode also re-enables every reasoning step.
ExplainMode_ResetsDepth(mode) ==
    /\ pc = "idle"
    /\ _explain_mode' = mode
    /\ enabled_reasoner_depth' = reasoner_depth
    /\ UNCHANGED <<kge, kge_embedder, output_layer,
                   adaptive_constant_embedder, model_name,
                   reasoner_depth, resnet, embedding_resnet, reasoning>>
    /\ UNCHANGED <<call_vars, atom_vars>>

\* CollectiveModel.explain_mode(mode)
ExplainMode(mode) ==
    /\ pc = "idle"
    /\ _explain_mode' = mode
    /\ UNCHANGED <<kge, kge_embedder, output_layer,
                   adaptive_constant_embedder, model_name,
                   reasoner_depth, enabled_reasoner_depth, resnet,
                   embedding_resnet, reasoning>>
    /\ UNCHANGED <<call_vars, atom_vars>>

\* The training driver sets the depth in use (multi-stage learning).
SetEnabledReasonerDepth(d) ==
    /\ pc = "idle"
    /\ enabled_reasoner_depth' = d
    /\ UNCHANGED <<kge, kge_embedder, output_layer,
                   adaptive_constant_embedder, model_name,
                   reasoner_depth, resnet, embedding_resnet, reasoning,
                   _explain_mode>>
    /\ UNCHANGED <<call_vars, atom_vars>>

\* CollectiveModel.call(inputs), to its return or its exception.
Call ==
    /\ pc = "idle"
    /\ \E A \in Groundings, A_rules \in RuleGroundings :
       \E Q \in Queries(RowCount(A)) :
       \E oob_raises \in {b \in BOOLEAN : b => ~InRange(Q, RowCount(A))} :
       \E r \in {CollectiveModelCall(XDomains, A, A_rules, Q, oob_raises)} :
           /\ pc' = IF r.status = "ok" THEN "returned" ELSE "raised"
           /\ inputs' = <<XDomains, A, A_rules, Q>>
           /\ result' = [status |-> r.status, line |-> r.line, ret |-> r.ret]
           /\ log' = r.log
    /\ UNCHANGED <<model_vars, atom_vars>>

\* The caller takes the outcome; the call's locals are gone.
Done ==
    /\ pc \in {"returned", "raised", "assembled"}
    /\ pc' = "idle" /\ inputs' = <<>> /\ result' = NoResult /\ log' = <<>>
    /\ A_predicates' = <<>> /\ triplets' = NoTriplets /\ atoms' = NoAtoms
    /\ UNCHANGED model_vars

Next ==
    \/ \E mode \in BOOLEAN : ExplainMode(mode)
    \/ \E d \in 0..MaxDepth : SetEnabledReasonerDepth(d)
    \/ Call
    \/ Done

Spec == Init /\ [][Next]_vars

(***************************************************************************)
(* Atom Assembly on its own: every grounding batch within the bounds.      *)
(***************************************************************************)
InitAtoms ==
    /\ Constructed([kge |-> "distmult", kge_regularization |-> 0,
                    kge_dropout_rate |-> 0, model_name |-> "dcr",
                    reasoner_depth |-> 0, num_rules |-> 0,
                    reasoner_single_model |-> FALSE, resnet |-> FALSE,
                    embedding_resnet |-> FALSE,
                    num_adaptive_constants |-> 0])
    /\ pc = "idle" /\ inputs = <<>> /\ result = NoResult /\ log = <<>>
    /\ A_predicates = <<>> /\ triplets = NoTriplets /\ atoms = NoAtoms

\* KGEModel.create_triplets on a grounding batch.
CreateTriplets ==
    /\ pc = "idle" /\ pc' = "assembled"
    /\ \E ks \in KeyOrders : \E A \in BatchesOf(ks) :
        /\ A_predicates' = A
        /\ triplets' = create_triplets(ConstantEmbedder(XDomains),
                           PredicateEmbedder(predicate_index_tensor), A)
    /\ atoms' = NoAtoms
    /\ UNCHANGED <<model_vars, inputs, result, log>>

\* AtomEmbeddingLayer.call on a grounding batch.
AtomEmbedding ==
    /\ pc = "idle" /\ pc' = "assembled"
    /\ \E ks \in KeyOrders : \E A \in BatchesOf(ks) :
        /\ A_predicates' = A
        /\ atoms' = AtomEmbeddingLayerCall(ConstantEmbedder(XDomains), A)
    /\ triplets' = NoTriplets
    /\ UNCHANGED <<model_vars, inputs, result, log>>

NextAtoms ==
    \/ CreateTriplets
    \/ AtomEmbedding
    \/ Done

SpecAtoms == InitAtoms /\ [][NextAtoms]_vars

(***************************************************************************)
(* Construction on its own: CollectiveModel(...) on every configuration,   *)
(* also those __init__ rejects.                                            *)
(***************************************************************************)
\* The spellings a scoring function is asked for by, and two names no
\* scoring function has.
KGENames ==
    {"distmult", "transe", "complex", "rotate", "mode", "tucker",
     "DistMult", "TransE", "ComplEx", "RotatE", "ModE", "Tucker",
     "hole", "dist_mult"}

\* kge_regularization and kge_dropout_rate are 0 or one positive value.
BuildConfigs ==
    [kge : KGENames,
     kge_regularization : {0, 1},
     kge_dropout_rate : {0, 1},
     model_name : {"dcr", "r2n", "mlp"},
     reasoner_depth : 0..MaxDepth,
     num_rules : {0, 1},
     reasoner_single_model : BOOLEAN,
     resnet : BOOLEAN,
     embedding_resnet : {FALSE},
     num_adaptive_constants : {0}]

\* No object yet.
InitBuild ==
    /\ kge = "" /\ kge_embedder = None /\ output_layer = None
    /\ adaptive_constant_embedder = None
    /\ model_name = "" /\ reasoner_depth = 0 /\ enabled_reasoner_depth = 0
    /\ resnet = FALSE /\ embedding_resnet = FALSE /\ reasoning = None
    /\ _explain_mode = FALSE
    /\ pc = "unbuilt" /\ inputs = <<>> /\ result = NoResult /\ log = <<>>
    /\ A_predicates = <<>> /\ triplets = NoTriplets /\ atoms = NoAtoms

\* CollectiveModel(**c): the object exists only if __init__ returns.
Construct ==
    /\ pc = "unbuilt"
    /\ \E c \in BuildConfigs : \E m \in {CollectiveModelInit(c)} :
        /\ inputs' = <<c>>
        /\ result' = [status |-> m.status, line |-> m.line, ret |-> <<>>]
        /\ IF m.status = "ok"
           THEN /\ pc' = "built"
                /\ kge' = c.kge
                /\ kge_embedder' = m.kge_embedder
                /\ output_layer' = m.output_layer
                /\ adaptive_constant_embedder'
                    = AdaptiveConstantEmbedderInit(c.num_adaptive_constants)
                /\ model_name' = c.model_name
                /\ reasoner_depth' = c.reasoner_depth
                /\ enabled_reasoner_depth' = c.reasoner_depth
                /\ resnet' = c.resnet
                /\ embedding_resnet' = c.embedding_resnet
                /\ reasoning' = m.reasoning
                /\ _explain_mode' = FALSE
           ELSE /\ pc' = "failed"
                /\ UNCHANGED model_vars
    /\ UNCHANGED <<log, atom_vars>>

\* The object, or the exception, is dropped.
Discard ==
    /\ pc \in {"built", "failed"}
    /\ pc' = "unbuilt" /\ inputs' = <<>> /\ result' = NoResult
    /\ kge' = "" /\ kge_embedder' = None /\ output_layer' = None
    /\ adaptive_constant_embedder' = None
    /\ model_name' = "" /\ reasoner_depth' = 0
    /\ enabled_reasoner_depth' = 0 /\ resnet' = FALSE
    /\ embedding_resnet' = FALSE /\ reasoning' = None
    /\ _explain_mode' = FALSE
    /\ UNCHANGED <<log, atom_vars>>

NextBuild ==
    \/ Construct
    \/ Discard

SpecBuild == InitBuild /\ [][NextBuild]_vars

(***************************************************************************)
(* KGEModel.call on its own: every scoring function, every batch of binary *)
(* predicates within the bounds (0 rows included), with and without the    *)
(* adaptive constant embedder.                                             *)
(***************************************************************************)
\* num_adaptive_constants when the adaptive embedder is configured.
NumAdaptive == 2

ScoreConfigs ==
    [kge : {"distmult", "transe", "complex", "rotate", "mode", "tucker"},
     kge_regularization : {0},
     kge_dropout_rate : {0},
     model_name : {"dcr"},
     reasoner_depth : {0},
     num_rules : {0},
     reasoner_single_model : {FALSE},
     resnet : {FALSE},
     embedding_resnet : {FALSE},
     num_adaptive_constants : {0, NumAdaptive}]

InitScore ==
    /\ \E c \in ScoreConfigs : Constructed(c)
    /\ pc = "idle" /\ inputs = <<>> /\ result = NoResult /\ log = <<>>
    /\ A_predicates = <<>> /\ triplets = NoTriplets /\ atoms = NoAtoms

\* The index sequences of a call: the known constants in order or, with the
\* adaptive embedder, any indices of the known and the adaptive constants.
XSpace ==
    IF adaptive_constant_embedder = None THEN {XDomains}
    ELSE {[A |-> a, B |-> b] :
            a \in [1..NumConstants("A") ->
                      0..(NumConstants("A") + adaptive_constant_embedder[1] - 1)],
            b \in [1..NumConstants("B") ->
                      0..(NumConstants("B") + adaptive_constant_embedder[1] - 1)]}

\* Batches of the binary predicates.
ScoreBatches == UNION {BatchesOf(ks) : ks \in {<<"p">>, <<"p", "q">>}}

\* self.kge_model((X_domains, A_predicates)), to its return or exception.
KGECall ==
    /\ pc = "idle"
    /\ \E X \in XSpace : \E A \in ScoreBatches :
       \E k \in {KGEModelCall(kge_embedder[1], output_layer[1], X, A)} :
           /\ pc' = IF k.status = "ok" THEN "returned" ELSE "raised"
           /\ inputs' = <<X, A>>
           /\ result' = [status |-> k.status, line |-> k.line,
                         ret |-> IF k.status = "ok"
                                 THEN <<k.atom_outputs, k.atom_embeddings>>
                                 ELSE <<>>]
           /\ log' = EmbedderQueries(X)
                     \o <<Event("create_triplets", -1, None,
                                <<constant_embeddings(X)>>, None)>>
    /\ UNCHANGED <<model_vars, atom_vars>>

NextScore ==
    \/ KGECall
    \/ Done

SpecScore == InitScore /\ [][NextScore]_vars

(***************************************************************************)
(* Properties of CollectiveModel.call (specification Spec).                *)
(***************************************************************************)
\* The call is over: it returned or it raised.
CallOver == pc \in {"returned", "raised"}

\* The call got past the KGE scoring pass of line 292.
PastKGE == CallOver /\ log # <<>> /\ log[1].out # None

\* What the KGE pass produced: concept scores (T, 1) and embeddings.
ConceptOutput == log[1].out[1][1]
ConceptEmbeddings == log[1].out[1][2]

\* The reasoning steps / explain operations invoked, in order.
StepsDone == SelectSeq(log, LAMBDA e : e.op = "reasoning")
ExplainsDone == SelectSeq(log, LAMBDA e : e.op = "explain")

\* The scores handed to the gather of lines 311-313 (squeezed).
GatherArgs == log[Len(log)].args

\* a + b - a*b on fixed-point scores.
Disj(a, b) == a + b - (a * b) \div Scale

\* C1: with no reasoning stack (reasoner_depth = 0 or no rules), the final
\* scores a call returns equal the symbolic scores it returns, whatever the
\* resnet and embedding_resnet flags.
C1_NoStackBuilt ==
    \A c \in Configs :
        ((c.reasoner_depth = 0 \/ c.num_rules = 0)
            /\ CollectiveModelInit(c).status = "ok")
        => CollectiveModelInit(c).reasoning = None

C1_FinalEqualsConcept ==
    /\ C1_NoStackBuilt
    /\ (pc = "returned" /\ reasoning = None)
        => /\ result.ret[2] = result.ret[1]
           /\ Len(StepsDone) = 0

C1_Witness ==
    /\ pc = "returned" /\ reasoning = None /\ reasoner_depth > 0
    /\ resnet /\ embedding_resnet
    /\ result.ret[1] = <<70, 70>> /\ result.ret[2] = <<70, 70>>

\* C2: in explain mode, a call on a model without a reasoning stack, or
\* whose model_name is neither dcr nor cdcr, raises the assertion failure
\* before anything is computed: no collaborator was invoked and nothing is
\* returned.
C2_ExplainPrecondition ==
    (CallOver /\ _explain_mode
        /\ (reasoning = None \/ model_name \notin {"dcr", "cdcr"}))
    => /\ pc = "raised"
       /\ result.status = "AssertionError"
       /\ result.ret = <<>>
       /\ log = <<>>

C2_Witness ==
    /\ pc = "raised" /\ _explain_mode /\ log = <<>>
    /\ reasoning # None /\ model_name = "r2n"

\* C3: a call, returning or raising, changes none of enabled_reasoner_depth,
\* _explain_mode, reasoner_depth and reasoning (nor any other field);
\* explain_mode(m) sets _explain_mode to m and changes nothing else; and
\* _explain_mode changes in no other way.
C3_Frame ==
    [][ /\ (pc = "idle" /\ pc' \in {"returned", "raised"})
            => UNCHANGED model_vars
        /\ \A m \in BOOLEAN :
            ExplainMode(m)
            => /\ _explain_mode' = m
               /\ UNCHANGED <<kge, kge_embedder, output_layer,
                              adaptive_constant_embedder, model_name,
                              reasoner_depth, enabled_reasoner_depth,
                              resnet, embedding_resnet, reasoning>>
        /\ (_explain_mode' # _explain_mode)
            => (pc = "idle" /\ pc' = "idle"
                /\ UNCHANGED <<enabled_reasoner_depth, reasoner_depth,
                               reasoning>>)
        /\ UNCHANGED <<reasoner_depth, reasoning>>
      ]_vars

C3_Witness ==
    /\ pc = "raised" /\ result.status = "AssertionError"
    /\ _explain_mode /\ reasoning # None
    /\ enabled_reasoner_depth # reasoner_depth

\* C4: with a reasoning stack and enabled_reasoner_depth <= reasoner_depth,
\* a call that reaches the loop runs exactly enabled_reasoner_depth steps, at
\* list positions 0, 1, ... in this order; step 0 gets the KGE scores and
\* embeddings, each later step gets what the step before it returned, and
\* every step gets the call's rule groundings.  (The steps of any call, also
\* of one that raises, are a prefix of this sequence.)
C4_Threaded(steps) ==
    \A j \in 1..Len(steps) :
        /\ steps[j].i = j - 1
        /\ steps[j].layer = Some(reasoning[1][j])
        /\ steps[j].args[3] = inputs[3]
        /\ <<steps[j].args[1], steps[j].args[2]>>
            = IF j = 1 THEN <<ConceptOutput, ConceptEmbeddings>>
              ELSE steps[j - 1].out[1]

C4_SequentialSteps ==
    (CallOver /\ reasoning # None)
    => /\ C4_Threaded(StepsDone)
       /\ Len(StepsDone) <= enabled_reasoner_depth
       /\ (PastKGE /\ enabled_reasoner_depth <= reasoner_depth)
            => Len(StepsDone) = enabled_reasoner_depth

C4_Witness ==
    /\ pc = "returned" /\ reasoning # None
    /\ reasoner_depth = 2 /\ enabled_reasoner_depth = 2
    /\ Len(StepsDone) = 2
    /\ StepsDone[2].args[1] # ConceptOutput
    /\ Len(ConceptOutput) = 3

\* C5: in explain mode, with an explainable stack and
\* enabled_reasoner_depth >= 1, a call that reaches the loop invokes explain
\* exactly once: on the layer at index enabled_reasoner_depth - 1, right
\* before that step runs and with that step's inputs (what the previous step
\* returned); a call that returns yields (symbolic scores, final scores,
\* explanations) with that explanation.
C5_ExplainAt(n) ==
    /\ log[n].op = "explain"
    /\ log[n].i = enabled_reasoner_depth - 1
    /\ log[n].layer = Some(reasoning[1][enabled_reasoner_depth])
    /\ log[n + 1].op = "reasoning"
    /\ log[n + 1].i = enabled_reasoner_depth - 1
    /\ log[n + 1].args = log[n].args
    /\ log[n].args[3] = inputs[3]
    /\ <<log[n].args[1], log[n].args[2]>>
        = IF enabled_reasoner_depth = 1
          THEN <<ConceptOutput, ConceptEmbeddings>>
          ELSE log[n - 1].out[1]
    /\ (enabled_reasoner_depth > 1 => log[n - 1].op = "reasoning")
    /\ (pc = "returned" => result.ret[3] = log[n].out)

C5_ExplainLastStep ==
    (PastKGE /\ _explain_mode /\ enabled_reasoner_depth >= 1
        /\ enabled_reasoner_depth <= reasoner_depth)
    => /\ Len(ExplainsDone) = 1
       /\ \E n \in 1..(Len(log) - 1) : C5_ExplainAt(n)
       /\ (pc = "returned" => Len(result.ret) = 3)

C5_Witness ==
    /\ pc = "returned" /\ _explain_mode
    /\ reasoner_depth = 2 /\ enabled_reasoner_depth = 2
    /\ Len(ExplainsDone) = 1 /\ ExplainsDone[1].i = 1
    /\ Len(result.ret) = 3 /\ result.ret[3] # None

\* C6: for a query sequence Q of valid row indices, both returned score
\* sequences have length |Q|; the k-th symbolic score is the concept score
\* of row Q[k] and the k-th final score is made from the scores of the same
\* row Q[k] (Q = [2, 0] over [s0, s1, s2] gives [s2, s0]).
C6_QueryGather ==
    (pc = "returned" /\ InRange(inputs[4], Len(ConceptOutput)))
    => LET Q == inputs[4]
           task == GatherArgs[1]
       IN  /\ Len(result.ret[1]) = Len(Q)
           /\ Len(result.ret[2]) = Len(Q)
           /\ GatherArgs[2] = [k \in 1..Len(ConceptOutput) |->
                                  ConceptOutput[k][1]]
           /\ \A k \in 1..Len(Q) :
                /\ result.ret[1][k] = ConceptOutput[Q[k] + 1][1]
                /\ result.ret[2][k] =
                      IF resnet /\ reasoning # None
                      THEN Disj(ConceptOutput[Q[k] + 1][1], task[Q[k] + 1])
                      ELSE task[Q[k] + 1]

C6_Witness ==
    /\ pc = "returned" /\ inputs[4] = <<2, 0>>
    /\ reasoning # None /\ enabled_reasoner_depth = 1 /\ ~resnet
    /\ ~embedding_resnet
    /\ GatherArgs[1] = <<100, 10, 100>> /\ result.ret[2] = <<100, 100>>
    /\ GatherArgs[2] = <<70, 90, 70>> /\ result.ret[1] = <<70, 70>>

\* C7: with task resnet on and a reasoning stack, every final score returned
\* is disj(a, b) = a + b - a*b of the gathered symbolic score a and the
\* gathered reasoned score b of the same queried atom; 0.3 and 0.3 give 0.51.
C7_TaskResnet ==
    (pc = "returned" /\ resnet /\ reasoning # None
        /\ InRange(inputs[4], Len(ConceptOutput)))
    => /\ Len(result.ret[2]) = Len(inputs[4])
       /\ \A k \in 1..Len(inputs[4]) :
            LET a == result.ret[1][k]
                b == GatherArgs[1][inputs[4][k] + 1]
            IN  /\ result.ret[2][k] = Disj(a, b)
                /\ (a = 30 /\ b = 30) => result.ret[2][k] = 51

C7_Witness ==
    /\ pc = "returned" /\ resnet /\ reasoning # None
    /\ inputs[4] = <<0>>
    /\ result.ret[1] = <<30>> /\ GatherArgs[1] = <<30>>
    /\ result.ret[2] = <<51>>

(***************************************************************************)
(* Properties of Atom Assembly (specification SpecAtoms).                  *)
(***************************************************************************)
\* The grounded atoms of a batch, rows in the signature's predicate order
\* and, within a predicate, in the batch's tuple order.
RECURSIVE AtomsInSignatureOrder(_, _)
AtomsInSignatureOrder(A, k) ==
    IF k > Len(Predicates) THEN <<>>
    ELSE (IF Predicates[k] \in Keys(A)
          THEN [t \in 1..Len(Lookup(A, Predicates[k])) |->
                   <<Predicates[k], Lookup(A, Predicates[k])[t]>>]
          ELSE <<>>)
         \o AtomsInSignatureOrder(A, k + 1)

\* The embeddings of the constants of one grounded atom <<name, tuple>>.
ConstantsOf(atom) ==
    [i \in 1..Len(atom[2]) |->
        ConstantTable(PredicateDomains(atom[1])[i])[atom[2][i] + 1]]

\* C8: whenever create_triplets returns, both outputs have one row per
\* grounded atom, i.e. as many rows as the batch has grounding tuples; a
\* row of a predicate of arity K is (K, width) in the constant output and
\* (width) in the predicate output; the row-count assertion never fails.
C8_RowCount ==
    /\ triplets.status # "AssertEqualError"
    /\ triplets.status = "ok"
        => LET pe == triplets.predicate_embeddings_per_triplets
               ce == triplets.constant_embeddings_for_triplets
               atoms_in == Concat([k \in 1..Len(A_predicates) |->
                              [t \in 1..Len(A_predicates[k].tuples) |->
                                  A_predicates[k].name]])
           IN  /\ Len(pe) = RowCount(A_predicates)
               /\ Len(ce) = RowCount(A_predicates)
               /\ \A r \in 1..Len(ce) :
                    /\ Len(ce[r]) = Len(PredicateDomains(atoms_in[r]))
                    /\ \A i \in 1..Len(ce[r]) : Len(ce[r][i]) = EmbSize
                    /\ Len(pe[r]) = EmbSize

C8_Witness ==
    /\ triplets.status = "ok"
    /\ Len(A_predicates) = 2
    /\ Len(A_predicates[1].tuples) = 2 /\ Len(A_predicates[2].tuples) = 1
    /\ Len(triplets.predicate_embeddings_per_triplets) = 3
    /\ Len(triplets.constant_embeddings_for_triplets) = 3

\* C9: the rows built by Atom Assembly follow the signature's predicate
\* order (and the batch's tuple order within a predicate), whatever the
\* order of the keys of the grounding mapping.
C9_SignatureOrder ==
    LET expected == AtomsInSignatureOrder(A_predicates, 1)
    IN  /\ triplets.status = "ok"
            => /\ triplets.predicate_embeddings_per_triplets
                    = [r \in 1..Len(expected) |->
                          PredicateTable[name2predicate_idx(expected[r][1]) + 1]]
               /\ triplets.constant_embeddings_for_triplets
                    = [r \in 1..Len(expected) |-> ConstantsOf(expected[r])]
        /\ atoms.status = "ok"
            => atoms.embeddings
                = [r \in 1..Len(expected) |->
                      AtomEmbedder(expected[r][1], <<ConstantsOf(expected[r])>>)[1]]

\* C10: a predicate absent from the batch contributes no rows and no error:
\* for every subset of predicates present, create_triplets (on predicates of
\* one arity) and AtomEmbeddingLayer.call complete and return one row per
\* grounding tuple of the predicates present.
C10_AbsentPredicates ==
    /\ (pc = "assembled" /\ triplets # NoTriplets /\ SameArity(A_predicates))
        => /\ triplets.status = "ok"
           /\ Len(triplets.predicate_embeddings_per_triplets)
                = RowCount(A_predicates)
    /\ (pc = "assembled" /\ atoms # NoAtoms)
        => /\ atoms.status = "ok"
           /\ Len(atoms.embeddings) = RowCount(A_predicates)

(***************************************************************************)
(* Properties of construction (specification SpecBuild).                   *)
(***************************************************************************)
\* The six scoring-function names, case-folded.
SupportedKGE == {"distmult", "transe", "complex", "rotate", "mode", "tucker"}

\* A construction was attempted with configuration inputs[1].
Attempted == pc \in {"built", "failed"}

\* C11: a scoring-function name that is not, case-insensitively, one of the
\* six is a configuration error: KGEFactory yields no (layer, output
\* function) pair for it, KGEModel and CollectiveModel construction with it
\* raise inside KGEModel.__init__, and no constructed model has such a name.
C11_FactoryRejects ==
    \A name \in KGENames :
        CaseFold(name) \notin SupportedKGE
        => /\ KGEFactory(name, EmbSize, 0, 0, EmbSize) = None
           /\ KGEModelInit(name, 0, 0).status # "ok"

C11_UnknownKGEFailsAtConstruction ==
    /\ C11_FactoryRejects
    /\ (Attempted /\ CaseFold(inputs[1].kge) \notin SupportedKGE)
        => /\ pc = "failed"
           /\ result.status \notin {"ok", "none"}
           /\ result.line \in 52..58
           /\ kge_embedder = None
    /\ pc = "built" => CaseFold(kge) \in SupportedKGE

C11_Witness ==
    /\ pc = "failed" /\ inputs[1].kge = "hole"
    /\ inputs[1].reasoner_depth = 0
    /\ result.status = "TypeError" /\ result.line = 52

\* The reasoning-model names __init__ knows.
KnownModelNames == {"dcr", "cdcr", "r2n", "sbr", "gsbr", "rnm", "dsl"}

\* C12: an unrecognized reasoning-model name makes CollectiveModel
\* construction fail, for every reasoner_depth (0 included) and every rule
\* list (the empty one included).
C12_UnknownModelNameFails ==
    (Attempted /\ inputs[1].model_name \notin KnownModelNames)
    => pc = "failed"

\* C15: the scoring layer the factory builds carries the configuration under
\* its own meaning: its dropout rate is kge_dropout_rate, its L2 coefficient
\* is kge_regularization and its N3 coefficient is 0.
C15_FactoryCarriesConfig ==
    pc = "built"
    => /\ kge_embedder[1].dropout_rate = inputs[1].kge_dropout_rate
       /\ kge_embedder[1].regularization = inputs[1].kge_regularization
       /\ kge_embedder[1].regularization_n3 = 0

\* C16: when a reasoning stack is built (reasoner_depth > 0 and rules
\* non-empty) the list has reasoner_depth entries; with
\* reasoner_single_model every entry is the instance at position 0, without
\* it the entries are pairwise distinct instances.
C16_ReasoningListSharing ==
    (pc = "built" /\ inputs[1].reasoner_depth > 0 /\ inputs[1].num_rules > 0)
    => /\ reasoning # None
       /\ Len(reasoning[1]) = inputs[1].reasoner_depth
       /\ \A j \in 1..Len(reasoning[1]) : \A k \in 1..Len(reasoning[1]) :
            IF inputs[1].reasoner_single_model
            THEN reasoning[1][k] = reasoning[1][1] /\ reasoning[1][k].id = 1
            ELSE (j # k => reasoning[1][j].id # reasoning[1][k].id)

C16_Witness ==
    /\ pc = "built" /\ inputs[1].reasoner_depth = 2
    /\ inputs[1].num_rules > 0 /\ inputs[1].reasoner_single_model
    /\ Len(reasoning[1]) = 2
    /\ reasoning[1][2].id = 1

\* C17: selection by scoring-function name is case-insensitive throughout:
\* a configuration and the same configuration with the kge name case-folded
\* build the same scoring layer, the same KGE output function and the same
\* reasoning layers (for r2n, with the same output layer handed to them).
C17_CaseInsensitive ==
    pc = "built"
    => LET folded == CollectiveModelInit(
                        [inputs[1] EXCEPT !.kge = CaseFold(inputs[1].kge)])
       IN  /\ folded.status = "ok"
           /\ kge_embedder = folded.kge_embedder
           /\ output_layer = folded.output_layer
           /\ reasoning = folded.reasoning

(***************************************************************************)
(* Properties of KGEModel.call (specification SpecScore).                  *)
(***************************************************************************)
\* C13: for each of the six scoring functions, scoring a batch of size 0
\* (the layer, then its output function, as KGEModel.call does) completes
\* and yields 0 rows; no scoring or output function ends in an error on a
\* well-shaped batch, and scores and embeddings have one row per atom.
C13_ScoringCompletes ==
    CallOver
    => /\ pc = "returned"
       /\ result.status = "ok"
       /\ Len(result.ret[1]) = RowCount(inputs[2])
       /\ Len(result.ret[2]) = RowCount(inputs[2])
       /\ \A k \in 1..Len(result.ret[1]) : Len(result.ret[1][k]) = 1

\* The embedder invocations of the call, and the constant embeddings it
\* handed on to Atom Assembly.
FixedQuery == log[1]
AdaptiveQuery == log[2]
ConstantsUsed == log[Len(log)].args[1]

\* C14: with adaptive-constant blending configured, for every domain and
\* every position holding index x, the constant embedding used is the fixed
\* table's embedding of x when x is below the domain's number of known
\* constants and the adaptive embedder's result for that position otherwise;
\* the whole vector comes from the one source.
C14_AdaptiveSelect ==
    (CallOver /\ adaptive_constant_embedder # None)
    => /\ Len(log) = 3
       /\ DOMAIN ConstantsUsed = DOMAIN inputs[1]
       /\ \A d \in DOMAIN inputs[1] :
            /\ Len(ConstantsUsed[d]) = Len(inputs[1][d])
            /\ \A k \in 1..Len(inputs[1][d]) :
                ConstantsUsed[d][k] =
                    IF inputs[1][d][k] < NumConstants(d)
                    THEN ConstantTable(d)[inputs[1][d][k] + 1]
                    ELSE AdaptiveQuery.out[1][d][k]

C14_Witness ==
    /\ pc = "returned" /\ adaptive_constant_embedder # None
    /\ inputs[1].A = <<1, 3>>
    /\ ConstantsUsed.A = << <<0, 1>>, <<6, -1>> >>
    /\ RowCount(inputs[2]) = 2

\* C18: with adaptive-constant blending configured (every domain has a known
\* constant), the fixed constant embedder is never asked for an index
\* outside the domain's known constants: an index at or above their number
\* is replaced by 0 before the fixed lookup, and the adaptive embedder gets
\* the raw indices.
C18_FixedLookupInRange ==
    (CallOver /\ adaptive_constant_embedder # None)
    => /\ FixedQuery.op = "constant_embedder"
       /\ \A n \in 2..Len(log) : log[n].op # "constant_embedder"
       /\ \A d \in DOMAIN inputs[1] : \A k \in 1..Len(inputs[1][d]) :
            /\ FixedQuery.args[1][d][k] \in 0..(NumConstants(d) - 1)
            /\ FixedQuery.args[1][d][k] =
                  IF inputs[1][d][k] >= NumConstants(d) THEN 0
                  ELSE inputs[1][d][k]
       /\ AdaptiveQuery.op = "adaptive_constant_embedder"
       /\ AdaptiveQuery.args[1] = inputs[1]

C18_Witness ==
    /\ CallOver /\ adaptive_constant_embedder # None
    /\ inputs[1].A = <<3, 1>> /\ inputs[1].B = <<2>>
    /\ FixedQuery.args[1].A = <<0, 1>> /\ FixedQuery.args[1].B = <<0>>
    /\ AdaptiveQuery.args[1].B = <<2>>

====
